---------------------------- MODULE Spec2Model ----------------------------
(***************************************************************************)
(* Model of the PDF merge engine of vitepress-pdf-export (src/src/merge.rs).*)
(*                                                                         *)
(* A PDF object is a tagged value [k |-> kind, v |-> payload]; a document  *)
(* is an id-indexed object table plus a trailer, as in lopdf.  Object ids  *)
(* are the object numbers (the generation is 0 throughout).  The pipeline  *)
(* of merge_pdfs is one action per stage:                                  *)
(*     merge_pdf_objects -> build_pdf_from_objects ->                      *)
(*     rewrite_vitepress_links                                             *)
(* The lopdf calls the stages make (renumber_objects_with, page_iter,      *)
(* Dictionary::extend, ...) are operators that compute what the library    *)
(* computes on the object table.                                           *)
(***************************************************************************)
EXTENDS Integers, Sequences, FiniteSets, TLC

VARIABLES
    sources,        \* the input: url_to_pdf_doc, a sequence of [url, doc]
    conf,           \* the Config: [page_number], an Option as a sequence
    pc,             \* position in merge_pdfs
    renumbered,     \* the sources' documents after renumber_objects_with
    parts,          \* PdfParts: [objects, pages]
    url_to_page_num,\* URL -> zero-based ordinal of its first page
    pdf,            \* the merged Document
    problem_urls,   \* unresolved plain URLs
    problem_anchors,\* unresolved anchors
    staged,         \* [anchors, urls]: the rewrites staged by the scan
    err,            \* the error a stage returned, "" when none
    saved,          \* the output file has been written
    retcode,        \* the ExitCode merge_pdfs returns, "" until it does
    named_dests,    \* what get_named_dests returned: [ok, dests]
    scanned         \* pages the loop of rewrite_vitepress_links has scanned

vars == <<sources, conf, pc, renumbered, parts, url_to_page_num, pdf,
          problem_urls, problem_anchors, staged, err, saved, retcode,
          named_dests, scanned>>

-----------------------------------------------------------------------------
(* Bounds of the model *)

\* sources of a merge whose page trees vary
MaxSources == 2
\* pages of one source
MaxPages == 2
\* sources of a merge whose outlines vary
MaxOutlineSources == 3
\* top-level outline nodes of one source
MaxChain == 2
\* sources of a merge whose links vary
MaxLinkSources == 3

-----------------------------------------------------------------------------
(* lopdf::Object *)

Reference(n)  == [k |-> "ref",  v |-> n]
Integer(i)    == [k |-> "int",  v |-> i]
Name(s)       == [k |-> "name", v |-> s]
String(s)     == [k |-> "str",  v |-> s]
Array(a)      == [k |-> "arr",  v |-> a]
Dictionary(d) == [k |-> "dict", v |-> d]
\* a stream holding content operations (its dictionary is empty)
Stream(ops)   == [k |-> "stream", v |-> ops]
\* lopdf::content::Operation
Operation(operator, operands) == [operator |-> operator, operands |-> operands]

EmptyDict == [x \in {} |-> Integer(0)]

IsRef(o)  == o.k = "ref"
IsDict(o) == o.k = "dict"
IsArr(o)  == o.k = "arr"

\* Dictionary::has
Has(d, key) == key \in DOMAIN d

\* Dictionary::set
DictSet(d, key, val) == [x \in DOMAIN d \cup {key} |-> IF x = key THEN val ELSE d[x]]

\* Dictionary::remove
DictRemove(d, key) == [x \in DOMAIN d \ {key} |-> d[x]]

\* Object::type_name().unwrap_or("")
TypeName(o) ==
    IF IsDict(o) /\ Has(o.v, "Type") /\ o.v["Type"].k = "name"
    THEN o.v["Type"].v ELSE ""

\* the ids an object refers to, at any depth
RECURSIVE RefsOf(_)
RefsOf(o) ==
    CASE o.k = "ref"  -> {o.v}
      [] o.k = "arr"  -> UNION {RefsOf(o.v[i]) : i \in DOMAIN o.v}
      [] o.k = "dict" -> UNION {RefsOf(o.v[key]) : key \in DOMAIN o.v}
      [] OTHER        -> {}

\* the closure of traverse_objects' action "replace a reference by its new id"
RECURSIVE MapRefs(_, _)
MapRefs(o, replace) ==
    CASE o.k = "ref"  -> IF o.v \in DOMAIN replace THEN Reference(replace[o.v]) ELSE o
      [] o.k = "arr"  -> Array([i \in DOMAIN o.v |-> MapRefs(o.v[i], replace)])
      [] o.k = "dict" -> Dictionary([key \in DOMAIN o.v |-> MapRefs(o.v[key], replace)])
      [] OTHER        -> o

\* ascending order of a set of ids (BTreeMap iteration order)
RECURSIVE Sorted(_)
Sorted(S) ==
    IF S = {} THEN <<>>
    ELSE LET m == CHOOSE x \in S : \A y \in S : x <= y
         IN  <<m>> \o Sorted(S \ {m})

Range(s) == {s[i] : i \in DOMAIN s}

IndexOf(s, x) == CHOOSE i \in DOMAIN s : s[i] = x

\* Document::with_version
EmptyDoc == [objects |-> EmptyDict, trailer |-> EmptyDict, max_id |-> 0]

-----------------------------------------------------------------------------
(* lopdf::Document and lopdf::Dictionary operations the merge calls *)

\* Document::get_dictionary(id) succeeds
IsDictAt(objects, id) == id \in DOMAIN objects /\ IsDict(objects[id])

\* Document::catalog: the dictionary the trailer's Root refers to
HasCatalog(doc) ==
    /\ Has(doc.trailer, "Root") /\ IsRef(doc.trailer["Root"])
    /\ IsDictAt(doc.objects, doc.trailer["Root"].v)

Catalog(doc) == doc.objects[doc.trailer["Root"].v].v

\* PageTreeIter: the Page-typed kids of a Pages node, depth first, in Kids order
RECURSIVE KidsPages(_, _, _, _)
KidsPages(objects, kids, i, fuel) ==
    IF i > Len(kids) THEN <<>>
    ELSE LET kid == kids[i]
             here ==
                IF ~(IsRef(kid) /\ IsDictAt(objects, kid.v)) THEN <<>>
                ELSE IF TypeName(objects[kid.v]) = "Page" THEN <<kid.v>>
                ELSE IF /\ TypeName(objects[kid.v]) = "Pages"
                        /\ fuel > 0
                        /\ Has(objects[kid.v].v, "Kids")
                        /\ IsArr(objects[kid.v].v["Kids"])
                     THEN KidsPages(objects, objects[kid.v].v["Kids"].v, 1, fuel - 1)
                ELSE <<>>
         IN  here \o KidsPages(objects, kids, i + 1, fuel)

\* Document::page_iter
PageIter(doc) ==
    IF /\ HasCatalog(doc)
       /\ Has(Catalog(doc), "Pages") /\ IsRef(Catalog(doc)["Pages"])
       /\ IsDictAt(doc.objects, Catalog(doc)["Pages"].v)
       /\ Has(doc.objects[Catalog(doc)["Pages"].v].v, "Kids")
       /\ IsArr(doc.objects[Catalog(doc)["Pages"].v].v["Kids"])
    THEN KidsPages(doc.objects, doc.objects[Catalog(doc)["Pages"].v].v["Kids"].v,
                   1, Cardinality(DOMAIN doc.objects))
    ELSE <<>>

\* Document::get_pages: page number (from 1) -> page id; a sequence is that map
GetPages(doc) == PageIter(doc)

\* the objects Document::traverse_objects visits: those reachable from the trailer
RECURSIVE Closure(_, _, _)
Closure(objects, frontier, seen) ==
    IF frontier = {} THEN seen
    ELSE LET next == UNION {RefsOf(objects[id]) : id \in frontier \cap DOMAIN objects}
             seen2 == seen \cup frontier
         IN  Closure(objects, next \ seen2, seen2)

Reachable(doc) == Closure(doc.objects, RefsOf(Dictionary(doc.trailer)), {})

\* the numbering of renumber_objects_with when the pages are not put in page order:
\* every object in ascending order of its old id
PlainOrder(doc) == Sorted(DOMAIN doc.objects)

\* the order in which renumber_objects_with hands out the new ids: the pages in
\* page order first, then every other object in ascending order of its old id
RenumberOrder(doc) ==
    LET pageOrder == PageIter(doc)
        rest == SelectSeq(Sorted(DOMAIN doc.objects), LAMBDA x : x \notin Range(pageOrder))
    IN  pageOrder \o rest

\* Document::renumber_objects_with(starting_id)
RenumberObjectsWith(doc, starting_id) ==
    LET order   == RenumberOrder(doc)
        replace == [old \in DOMAIN doc.objects |-> starting_id + IndexOf(order, old) - 1]
        reach   == Reachable(doc)
        newIds  == {replace[old] : old \in DOMAIN doc.objects}
        oldOf(new) == CHOOSE old \in DOMAIN doc.objects : replace[old] = new
    IN  [objects |-> [new \in newIds |->
                        IF oldOf(new) \in reach
                        THEN MapRefs(doc.objects[oldOf(new)], replace)
                        ELSE doc.objects[oldOf(new)]],
         trailer |-> MapRefs(Dictionary(doc.trailer), replace).v,
         max_id  |-> starting_id + Cardinality(DOMAIN doc.objects) - 1]

\* Dictionary::extend(self, other): the result holds other's keys; a key both hold
\* keeps self's value or combines the two, by the kinds of the values
RECURSIVE Extend(_, _)
Extend(self, other) ==
    LET both(old, val) ==
            CASE old.k = "dict" /\ val.k = "dict" -> Dictionary(Extend(old.v, val.v))
              [] old.k = "arr"  /\ val.k = "arr"  -> Array(old.v \o val.v)
              [] old.k = "int"  /\ val.k = "int"  -> Array(<<old, val>>)
              [] old.k = "str"  /\ val.k = "str"  ->
                    IF old.v = val.v THEN val ELSE Array(<<old, val>>)
              [] old.k = "ref"  /\ val.k = "ref"  ->
                    IF old.v = val.v THEN old ELSE Array(<<old, val>>)
              [] old.k = "name" -> old
              [] val.k = "arr"  -> Array(<<old>> \o val.v)
              [] OTHER          -> Array(<<val, old>>)
    IN  [key \in DOMAIN other |->
            IF key \in DOMAIN self THEN both(self[key], other[key]) ELSE other[key]]

\* insertion of b's entries into a, b's value winning (BTreeMap/IndexMap extend)
Override(a, b) == [x \in DOMAIN a \cup DOMAIN b |-> IF x \in DOMAIN b THEN b[x] ELSE a[x]]

-----------------------------------------------------------------------------
(* URLs: a URL is a sequence of tokens; "/" and "#" are tokens of their own, *)
(* so that split('/'), split('#'), starts_with and push_str act token-wise  *)

Base == "http://example.com"

\* Config::url
ConfUrl == <<Base>>

PageName(s) == IF s = 1 THEN "index.html" ELSE ToString(s) \o ".html"

\* the URL the s-th source was rendered from
UrlOf(s) == <<Base, "/", PageName(s)>>

\* str::starts_with
StartsWith(url, prefix) ==
    Len(prefix) <= Len(url) /\ SubSeq(url, 1, Len(prefix)) = prefix

\* url.split(sep).last(): what follows the last separator (all of it when none)
LastPart(url, sep) ==
    LET at == {i \in DOMAIN url : url[i] = sep}
    IN  IF at = {} THEN url
        ELSE LET m == CHOOSE i \in at : \A j \in at : j <= i
             IN  SubSeq(url, m + 1, Len(url))

-----------------------------------------------------------------------------
(* The source documents.  A source is built from a description p:          *)
(*   layout   "flat": one Pages node; "nestedLow"/"nestedHigh": the root   *)
(*            holds one inner Pages node that holds the pages, the inner   *)
(*            node having the lower/higher object id (the root is the      *)
(*            source's last/first object)                                  *)
(*   npages   number of pages;  desc: the pages' object ids descend in     *)
(*            page order                                                   *)
(*   chain    number of top-level outline nodes (0: no outline), count the *)
(*            Count its outline root declares                              *)
(*   link     the Link annotation of the last page, indirect: the page's   *)
(*            Annots is a reference to the array                           *)
(*   dest     the Catalog has a /Dests table naming anchor "a"             *)
(*   res      the Resources of every page: "absent"; "noFont": a dictionary *)
(*            without Font; "F1", "F2", "F1F2": a dictionary whose Font     *)
(*            table holds these slots; "indirect": a reference to such a    *)
(*            dictionary; "fontIndirect": Font is a reference to the table. *)
(*            A page with Resources has Contents (an array for "F2")        *)
(*   broken   "": well formed; "noPages": no Pages object; "noCatalog": no  *)
(*            Catalog and no Root; "noCount", "noFirst", "noLast": the      *)
(*            outline root lacks the key; "unloadable": the file does not   *)
(*            parse                                                         *)
(* Object ids are the positions in the creation order Roles(p).            *)

LinkKinds == {"none", "next", "slash", "ext", "anchor", "dest"}

Roles(p) ==
    LET tree == CASE p.broken = "noPages"    -> <<>>
                  [] p.layout = "flat"       -> << <<"root", 0>> >>
                  [] p.layout = "nestedLow"  -> << <<"node", 0>> >>
                  [] p.layout = "nestedHigh" -> << <<"root", 0>>, <<"node", 0>> >>
        late == IF p.layout = "nestedLow" THEN << <<"root", 0>> >> ELSE <<>>
        pgs  == [i \in 1..p.npages |->
                    <<"pg", IF p.desc THEN p.npages + 1 - i ELSE i>>]
        ann  == IF p.link \in {"none", "badAnnots"} THEN <<>>
                ELSE (IF p.link = "dest" THEN <<>> ELSE << <<"action", 0>> >>)
                     \o << <<"annot", 0>> >>
                     \o (IF p.indirect THEN << <<"annots", 0>> >> ELSE <<>>)
        outl == IF p.chain = 0 THEN <<>>
                ELSE << <<"outl", 0>> >> \o [i \in 1..p.chain |-> <<"o", i>>]
        dst  == IF p.dest THEN << <<"dests", 0>> >> ELSE <<>>
        rsrc == (IF p.res \in {"F1", "F2", "F1F2", "indirect", "fontIndirect"}
                 THEN << <<"font", 0>> >> ELSE <<>>)
                \o (IF p.res # "absent" THEN << <<"content", 0>> >> ELSE <<>>)
                \o (IF p.res = "indirect" THEN << <<"res", 0>> >> ELSE <<>>)
                \o (IF p.res = "fontIndirect" THEN << <<"fonts", 0>> >> ELSE <<>>)
        cat  == IF p.broken = "noCatalog" THEN <<>> ELSE << <<"cat", 0>> >>
    IN  tree \o ann \o rsrc \o pgs \o outl \o dst \o cat \o late

\* the entries a source's root Pages node holds for its pages to inherit
InheritKinds == {"", "MediaBox", "Rotate", "Resources"}

Inherited(p, s) ==
    CASE p.inherit = "MediaBox"  ->
            [MediaBox |-> Array(<<Integer(0), Integer(0), Integer(s), Integer(1)>>)]
      [] p.inherit = "Rotate"    -> [Rotate |-> Integer(90 * s)]
      [] p.inherit = "Resources" ->
            [Resources |-> Dictionary([ProcSet |->
                              Array(<<Name(IF s = 1 THEN "PDF" ELSE "Text")>>)])]
      [] OTHER                   -> EmptyDict

LinkUri(p, s) ==
    CASE p.link = "next"   -> UrlOf(s + 1)
      [] p.link = "slash"  -> <<Base, "/">>
      [] p.link = "ext"    -> <<"http://other.org", "/", "x.html">>
      [] p.link = "anchor" -> UrlOf(s) \o <<"#", "a">>
      [] p.link = "anchorNext" -> UrlOf(s + 1) \o <<"#", "a">>
      [] OTHER             -> <<>>

\* the object a role stands for, in the s-th source
MakeObject(p, s, role) ==
    LET id(r)    == IndexOf(Roles(p), r)
        R(r)     == Reference(id(r))
        pageRefs == [i \in 1..p.npages |-> R(<<"pg", i>>)]
        parent   == IF p.layout = "flat" THEN <<"root", 0>> ELSE <<"node", 0>>
    IN  CASE role[1] = "root" ->
               Dictionary(Override(
                   [Type  |-> Name("Pages"),
                    Kids  |-> Array(IF p.layout = "flat" THEN pageRefs
                                    ELSE << R(<<"node", 0>>) >>),
                    Count |-> Integer(p.npages)],
                   Inherited(p, s)))
          [] role[1] = "node" ->
               Dictionary([Type   |-> Name("Pages"),
                           Parent |-> R(<<"root", 0>>),
                           Kids   |-> Array(pageRefs),
                           Count  |-> Integer(p.npages)])
          [] role[1] = "pg" ->
               LET bare == [Type   |-> Name("Page"),
                            Origin |-> String(<<s, role[2]>>)]
                   page == IF p.broken = "noPages" THEN bare
                           ELSE DictSet(bare, "Parent", R(parent))
                   fontsOf == CASE p.res = "F2"   -> [F2 |-> R(<<"font", 0>>)]
                                [] p.res = "F1F2" -> [F1 |-> R(<<"font", 0>>),
                                                      F2 |-> R(<<"font", 0>>)]
                                [] OTHER          -> [F1 |-> R(<<"font", 0>>)]
                   resources ==
                       CASE p.res = "noFont"   -> Dictionary([ProcSet |-> Name("PDF")])
                         [] p.res = "indirect" -> R(<<"res", 0>>)
                         [] p.res = "fontIndirect" ->
                                Dictionary([Font |-> R(<<"fonts", 0>>)])
                         [] OTHER -> Dictionary([Font |-> Dictionary(fontsOf)])
                   withRes == IF p.res = "absent" THEN page
                              ELSE DictSet(DictSet(page, "Resources", resources),
                                           "Contents",
                                           IF p.res = "F2"
                                           THEN Array(<< R(<<"content", 0>>) >>)
                                           ELSE R(<<"content", 0>>))
               IN  Dictionary(
                     IF p.link # "none" /\ role[2] = p.npages
                     THEN DictSet(withRes, "Annots",
                                  CASE p.indirect -> R(<<"annots", 0>>)
                                    [] p.link = "badAnnots" -> Array(<<Integer(0)>>)
                                    [] OTHER -> Array(<< R(<<"annot", 0>>) >>))
                     ELSE withRes)
          [] role[1] = "font" ->
               Dictionary([Type |-> Name("Font"), Subtype |-> Name("Type1"),
                           BaseFont |-> Name("Courier")])
          [] role[1] = "content" ->
               Stream(<<Operation("BT", <<>>),
                        Operation("Tj", <<String(<<"Hello World!">>)>>),
                        Operation("ET", <<>>)>>)
          [] role[1] = "res" ->
               Dictionary([Font |-> Dictionary([F1 |-> R(<<"font", 0>>)])])
          [] role[1] = "fonts" ->
               Dictionary([F1 |-> R(<<"font", 0>>)])
          [] role[1] = "annots" -> Array(<< R(<<"annot", 0>>) >>)
          [] role[1] = "annot" ->
               LET annot == [Type |-> Name("Annot"), Subtype |-> Name("Link")]
               IN  Dictionary(
                     IF p.link = "dest" THEN DictSet(annot, "Dest", Name("a"))
                     ELSE DictSet(annot, "A", R(<<"action", 0>>)))
          [] role[1] = "action" ->
               Dictionary(IF p.link = "noUri"
                          THEN [Type |-> Name("Action"), S |-> Name("URI")]
                          ELSE [Type |-> Name("Action"), S |-> Name("URI"),
                                URI  |-> String(LinkUri(p, s))])
          [] role[1] = "outl" ->
               LET whole == [Type  |-> Name("Outlines"),
                             First |-> R(<<"o", 1>>),
                             Last  |-> R(<<"o", p.chain>>),
                             Count |-> Integer(p.count)]
               IN  Dictionary(CASE p.broken = "noCount" -> DictRemove(whole, "Count")
                                [] p.broken = "noFirst" -> DictRemove(whole, "First")
                                [] p.broken = "noLast"  -> DictRemove(whole, "Last")
                                [] OTHER                -> whole)
          [] role[1] = "o" ->
               LET node == [Title  |-> String(<<s, role[2]>>),
                            Parent |-> R(<<"outl", 0>>)]
                   withNext == IF role[2] < p.chain
                               THEN DictSet(node, "Next", R(<<"o", role[2] + 1>>))
                               ELSE node
               IN  Dictionary(IF role[2] > 1
                              THEN DictSet(withNext, "Prev", R(<<"o", role[2] - 1>>))
                              ELSE withNext)
          [] role[1] = "dests" ->
               Dictionary([name \in p.names |->
                              Array(<< R(<<"pg", 1>>), Name("Fit") >>)])
          [] role[1] = "cat" ->
               LET cat == IF p.broken = "noPages" THEN [Type |-> Name("Catalog")]
                          ELSE [Type |-> Name("Catalog"), Pages |-> R(<<"root", 0>>)]
                   withOutl == IF p.chain > 0
                               THEN DictSet(cat, "Outlines", R(<<"outl", 0>>))
                               ELSE cat
               IN  Dictionary(IF p.dest
                              THEN DictSet(withOutl, "Dests", R(<<"dests", 0>>))
                              ELSE withOutl)

\* the document Document::load gives for the s-th source
MakeDoc(p, s) ==
    [objects |-> [i \in 1..Len(Roles(p)) |-> MakeObject(p, s, Roles(p)[i])],
     trailer |-> IF p.broken = "noCatalog" THEN EmptyDict
                 ELSE [Root |-> Reference(IndexOf(Roles(p), <<"cat", 0>>))],
     max_id  |-> Len(Roles(p))]

-----------------------------------------------------------------------------
(* merge_pdf_objects *)

\* a starting id that reuses the last id of the source before
ReusedStartingId(doc) == doc.max_id

\* starting_id = doc.max_id + 1
NextStartingId(doc) == doc.max_id + 1

\* one pass of the loop over url_to_pdf_doc
ImportSource(acc, src) ==
    LET doc      == RenumberObjectsWith(src.doc, acc.starting_id)
        pageIds  == Range(GetPages(doc))
    IN  [url_to_page_num |-> Override(acc.url_to_page_num,
                                      src.url :> Cardinality(DOMAIN acc.pages)),
         starting_id     |-> NextStartingId(doc),
         pages           |-> Override(acc.pages, [id \in pageIds |-> doc.objects[id]]),
         objects         |-> Override(acc.objects, doc.objects),
         renumbered      |-> Append(acc.renumbered, doc)]

RECURSIVE ImportLoop(_, _, _)
ImportLoop(srcs, i, acc) ==
    IF i > Len(srcs) THEN acc
    ELSE ImportLoop(srcs, i + 1, ImportSource(acc, srcs[i]))

MergePdfObjects(srcs) ==
    ImportLoop(srcs, 1, [url_to_page_num |-> EmptyDict, starting_id |-> 1,
                         pages |-> EmptyDict, objects |-> EmptyDict,
                         renumbered |-> <<>>])

-----------------------------------------------------------------------------
(* merge_outlines: the result is [err, objects, id], id = 0 for None *)

\* count += outline_obj.get(b"Count")?.as_i64()?
\* a count of the outlines instead of the sum of their Counts
CountOutlines(count, outline_obj) == count + 1

AddCount(count, outline_obj) == count + outline_obj["Count"].v

\* the last_item_id the fold carries on after a source: the source's Last
\* the last item is never advanced past the first outline's
KeepLast(last_item_id, outline_obj) == last_item_id

NextLast(last_item_id, outline_obj) == outline_obj["Last"].v

\* one pass of the loop over the Outlines dictionaries; state is <<>> for None,
\* else <<parent_id, parent_obj, last_item_id>>
OutlineStep(st, outline_id, outline_obj) ==
    IF st.err # "" THEN st
    ELSE IF ~(Has(outline_obj, "Count") /\ outline_obj["Count"].k = "int")
    THEN [st EXCEPT !.err = "outline Count"]
    ELSE IF st.state = <<>>
    THEN IF ~(Has(outline_obj, "Last") /\ IsRef(outline_obj["Last"]))
         THEN [st EXCEPT !.err = "outline Last"]
         ELSE [st EXCEPT !.count = AddCount(@, outline_obj),
                         !.state = <<outline_id, outline_obj, outline_obj["Last"].v>>]
    ELSE LET parent_id    == st.state[1]
             last_item_id == st.state[3]
         IN  IF ~IsDictAt(st.objects, last_item_id)
             THEN [st EXCEPT !.err = "last item"]
             ELSE IF ~(Has(outline_obj, "First") /\ IsRef(outline_obj["First"]))
             THEN [st EXCEPT !.err = "outline First"]
             ELSE LET first_id == outline_obj["First"].v
                      linked   == [st.objects EXCEPT ![last_item_id] =
                                     Dictionary(DictSet(@.v, "Next", Reference(first_id)))]
                  IN  IF ~IsDictAt(linked, first_id)
                      THEN [st EXCEPT !.err = "first item"]
                      ELSE LET first_item == DictSet(linked[first_id].v, "Prev",
                                                     Reference(last_item_id))
                           IN  \* while first_item.has(Next): the walk steps to
                               \* first_item.get_mut(Next)?.as_dict_mut()?, and Next
                               \* holds a reference (outline items are indirect
                               \* objects), which is no dictionary
                               IF Has(first_item, "Next")
                               THEN [st EXCEPT !.err = "Next is not a dictionary"]
                               ELSE IF ~(Has(outline_obj, "Last") /\ IsRef(outline_obj["Last"]))
                               THEN [st EXCEPT !.err = "outline Last"]
                               ELSE [st EXCEPT
                                       !.count = AddCount(@, outline_obj),
                                       !.objects = [linked EXCEPT ![first_id] =
                                           Dictionary(DictSet(first_item, "Parent",
                                                              Reference(parent_id)))],
                                       !.state = <<parent_id, st.state[2],
                                                   NextLast(last_item_id, outline_obj)>>]

RECURSIVE OutlineLoop(_, _, _)
OutlineLoop(outlines, i, st) ==
    IF i > Len(outlines) THEN st
    ELSE OutlineLoop(outlines, i + 1, OutlineStep(st, outlines[i][1], outlines[i][2]))

MergeOutlines(objects, outlines) ==
    IF outlines = <<>> THEN [err |-> "", objects |-> objects, id |-> 0]
    ELSE LET st == OutlineLoop(outlines, 1,
                      [err |-> "", objects |-> objects, count |-> 0, state |-> <<>>])
         IN  IF st.err # "" THEN [err |-> st.err, objects |-> st.objects, id |-> 0]
             ELSE LET parent_obj == DictSet(DictSet(st.state[2], "Count", Integer(st.count)),
                                            "Last", Reference(st.state[3]))
                  IN  [err |-> "",
                       objects |-> Override(st.objects,
                                            st.state[1] :> Dictionary(parent_obj)),
                       id |-> st.state[1]]

-----------------------------------------------------------------------------
(* build_pdf_from_objects *)

\* the match on object.type_name() for one object of parts.objects
ScanObject(st, object_id, object) ==
    IF st.err # "" THEN st
    ELSE CASE TypeName(object) = "Catalog" ->
                LET kept == IF st.catalog = <<>>
                            THEN [st EXCEPT !.catalog = <<object_id, object>>]
                            ELSE st
                IN  IF Has(object.v, "Dests")
                    THEN IF IsRef(object.v["Dests"])
                         THEN [kept EXCEPT !.destination_ids =
                                              Append(@, object.v["Dests"].v)]
                         ELSE [kept EXCEPT !.err = "Dests is not a reference"]
                    ELSE kept
           [] TypeName(object) = "Pages" ->
                IF st.pages_object = <<>>
                THEN [st EXCEPT !.pages_object = <<object_id, object>>]
                ELSE [st EXCEPT !.pages_object =
                        <<@[1], IF IsDict(@[2])
                                THEN Dictionary(Extend(object.v, @[2].v))
                                ELSE object>>]
           [] TypeName(object) = "Page" -> st
           [] TypeName(object) = "Outlines" ->
                [st EXCEPT !.outlines = Append(@, <<object_id, object.v>>)]
           [] OTHER ->
                [st EXCEPT !.objects = Override(@, object_id :> object)]

RECURSIVE ScanLoop(_, _, _, _)
ScanLoop(objects, ids, i, st) ==
    IF i > Len(ids) THEN st
    ELSE ScanLoop(objects, ids, i + 1, ScanObject(st, ids[i], objects[ids[i]]))

\* a table in which the entry that is already there stays
KeepDestinations(destinations, dests) == Override(dests, destinations)

\* destinations.as_hashmap_mut().extend(dests): the new entry replaces the old
ExtendDestinations(destinations, dests) == Override(destinations, dests)

\* the loop over destination_ids: [err, objects, destinations]
RECURSIVE DestinationsLoop(_, _, _)
DestinationsLoop(destination_ids, i, st) ==
    IF i > Len(destination_ids) \/ st.err # "" THEN st
    ELSE LET id == destination_ids[i]
         IN  IF ~IsDictAt(st.objects, id)
             THEN [st EXCEPT !.err = "destination object"]
             ELSE DestinationsLoop(destination_ids, i + 1,
                    [st EXCEPT !.destinations =
                                  ExtendDestinations(@, st.objects[id].v),
                               !.objects = [x \in DOMAIN st.objects \ {id} |->
                                               st.objects[x]]])

\* the pages inserted as they are, Parent left as imported
InsertPagesAsImported(objects, pages, pages_id) == Override(objects, pages)

\* the loop over parts.pages: every page is inserted with Parent set
InsertPages(objects, pages, pages_id) ==
    Override(objects,
             [id \in {x \in DOMAIN pages : IsDict(pages[x])} |->
                 Dictionary(DictSet(pages[id].v, "Parent", Reference(pages_id)))])

\* Kids that miss the last page
KidsButLast(pages) ==
    LET ids == Sorted(DOMAIN pages)
    IN  [i \in 1..(Len(ids) - 1) |-> Reference(ids[i])]

\* the Kids of the new Pages: parts.pages' keys, in the map's order
NewKids(pages) ==
    LET ids == Sorted(DOMAIN pages)
    IN  [i \in DOMAIN ids |-> Reference(ids[i])]

\* the result is [err, doc]
BuildPdfFromObjects(pts) ==
    LET scan == ScanLoop(pts.objects, Sorted(DOMAIN pts.objects), 1,
                         [err |-> "", catalog |-> <<>>, destination_ids |-> <<>>,
                          outlines |-> <<>>, pages_object |-> <<>>,
                          objects |-> EmptyDict])
        dst  == DestinationsLoop(scan.destination_ids, 1,
                         [err |-> "", objects |-> scan.objects,
                          destinations |-> EmptyDict])
        withPages == InsertPages(dst.objects, pts.pages, scan.pages_object[1])
        outl == MergeOutlines(withPages, scan.outlines)
        pages_id   == scan.pages_object[1]
        catalog_id == scan.catalog[1]
        newPages ==
            IF IsDict(scan.pages_object[2])
            THEN Override(outl.objects, pages_id :>
                    Dictionary(DictSet(DictSet(scan.pages_object[2].v, "Count",
                                               Integer(Cardinality(DOMAIN pts.pages))),
                                       "Kids", Array(NewKids(pts.pages)))))
            ELSE outl.objects
        newCatalog ==
            LET withPagesRef == DictSet(scan.catalog[2].v, "Pages", Reference(pages_id))
                withOutlines == IF outl.id = 0 THEN withPagesRef
                                ELSE DictSet(withPagesRef, "Outlines", Reference(outl.id))
            IN  Override(newPages, catalog_id :>
                    Dictionary(DictSet(withOutlines, "Dests",
                                       Dictionary(dst.destinations))))
        document == [objects |-> newCatalog,
                     trailer |-> [Root |-> Reference(catalog_id)],
                     max_id  |-> Cardinality(DOMAIN newCatalog)]
    IN  IF scan.err # "" THEN [err |-> scan.err, doc |-> EmptyDoc]
        ELSE IF dst.err # "" THEN [err |-> dst.err, doc |-> EmptyDoc]
        ELSE IF scan.pages_object = <<>> THEN [err |-> "No Pages found.", doc |-> EmptyDoc]
        ELSE IF outl.err # "" THEN [err |-> outl.err, doc |-> EmptyDoc]
        ELSE IF scan.catalog = <<>>
        THEN [err |-> "Catalog root not found.", doc |-> EmptyDoc]
        ELSE [err |-> "", doc |-> RenumberObjectsWith(document, 1)]

-----------------------------------------------------------------------------
(* get_named_dests and rewrite_vitepress_links *)

\* Document::get_dict_in_dict: [ok, dict]
GetDictInDict(doc, node, key) ==
    IF ~Has(node, key) THEN [ok |-> FALSE, dict |-> EmptyDict]
    ELSE IF IsRef(node[key])
    THEN IF IsDictAt(doc.objects, node[key].v)
         THEN [ok |-> TRUE, dict |-> doc.objects[node[key].v].v]
         ELSE [ok |-> FALSE, dict |-> EmptyDict]
    ELSE IF IsDict(node[key]) THEN [ok |-> TRUE, dict |-> node[key].v]
    ELSE [ok |-> FALSE, dict |-> EmptyDict]

\* get_named_dests: [ok, dests]
GetNamedDests(doc) ==
    IF ~HasCatalog(doc) THEN [ok |-> FALSE, dests |-> EmptyDict]
    ELSE LET tree  == GetDictInDict(doc, Catalog(doc), "Dests")
             names == GetDictInDict(doc, Catalog(doc), "Names")
             dests == GetDictInDict(doc, names.dict, "Dests")
             found == IF ~tree.ok /\ names.ok /\ dests.ok THEN dests ELSE tree
         IN  [ok |-> found.ok, dests |-> found.dict]

\* Dictionary::get_deref: [ok, obj]
GetDeref(doc, dict, key) ==
    IF ~Has(dict, key) THEN [ok |-> FALSE, obj |-> Integer(0)]
    ELSE IF IsRef(dict[key])
    THEN IF dict[key].v \in DOMAIN doc.objects
         THEN [ok |-> TRUE, obj |-> doc.objects[dict[key].v]]
         ELSE [ok |-> FALSE, obj |-> Integer(0)]
    ELSE [ok |-> TRUE, obj |-> dict[key]]

\* the text of a token sequence
RECURSIVE Join(_)
Join(tokens) == IF tokens = <<>> THEN "" ELSE Head(tokens) \o Join(Tail(tokens))

\* format!("Page No. {}: {url}", page_num + 1): the pair the text is made of
Problem(page_num, text) == [page |-> page_num + 1, text |-> text]

\* None => problem_urls.push(..)
OnUrlMiss(st, page_num, url) ==
    [st EXCEPT !.problem_urls = Append(@, Problem(page_num, url))]

\* a miss that records nothing
IgnoreMiss(st, page_num, text) == st

\* None => problem_anchors.push(..)
OnAnchorMiss(st, page_num, text) ==
    [st EXCEPT !.problem_anchors = Append(@, Problem(page_num, text))]

\* the annotations of a page: [err, list], list of <<annotation_id, dictionary>>
RECURSIVE DirectAnnots(_, _, _, _)
DirectAnnots(doc, array, i, acc) ==
    IF i > Len(array) \/ acc.err # "" THEN acc
    ELSE IF ~IsRef(array[i]) THEN [acc EXCEPT !.err = "Annots entry is not a reference"]
    ELSE IF ~IsDictAt(doc.objects, array[i].v)
    THEN [acc EXCEPT !.err = "annotation is not a dictionary"]
    ELSE DirectAnnots(doc, array, i + 1,
            [acc EXCEPT !.list = Append(@, <<array[i].v, doc.objects[array[i].v].v>>)])

PageAnnotations(doc, page_id) ==
    LET page == doc.objects[page_id].v
    IN  IF ~(IsDictAt(doc.objects, page_id) /\ Has(page, "Annots"))
        THEN [err |-> "", list |-> <<>>]
        ELSE IF IsRef(page["Annots"])
        THEN LET id == page["Annots"].v
             IN  IF ~(id \in DOMAIN doc.objects /\ IsArr(doc.objects[id]))
                 THEN [err |-> "panic: Annots is not an array", list |-> <<>>]
                 ELSE LET array == doc.objects[id].v
                          refs  == SelectSeq(array, LAMBDA o :
                                      IsRef(o) /\ IsDictAt(doc.objects, o.v))
                      IN  \* the id pushed is the id of the array object
                          [err |-> "",
                           list |-> [i \in DOMAIN refs |->
                                        <<id, doc.objects[refs[i].v].v>>]]
        ELSE IF IsArr(page["Annots"])
        THEN DirectAnnots(doc, page["Annots"].v, 1, [err |-> "", list |-> <<>>])
        ELSE [err |-> "", list |-> <<>>]

\* a test that takes every URI for a link into the site
IsAnyUrl(uri, conf_url) == TRUE

\* the test for a link into the site: the URI starts with the configured URL
IsSiteUrl(uri, conf_url) == StartsWith(uri, conf_url)

\* the body of the loop over a page's annotations
ScanAnnotation(doc, conf_url, url_to_page_id, dests, page_num, st, annotation_id, annotation) ==
    LET subtype == GetDeref(doc, annotation, "Subtype")
        isLink  == subtype.ok /\ subtype.obj.k = "name" /\ subtype.obj.v = "Link"
        ahref   == GetDeref(doc, annotation, "A")
    IN  IF st.err # "" \/ ~isLink THEN st
        ELSE IF ahref.ok /\ IsDict(ahref.obj)
        THEN IF ~(Has(ahref.obj.v, "URI") /\ ahref.obj.v["URI"].k = "str")
             THEN [st EXCEPT !.err = "URI"]
             ELSE LET uri  == ahref.obj.v["URI"].v
                      page == LastPart(uri, "/")
                      url  == IF page = <<>> THEN uri \o <<"index.html">> ELSE uri
                  IN  IF ~IsSiteUrl(uri, conf_url) THEN st
                      ELSE IF "#" \in Range(page)
                      THEN LET anchor == Join(LastPart(page, "#"))
                           IN  IF anchor \in DOMAIN dests
                               THEN [st EXCEPT !.anchors_to_rewrite =
                                        Append(@, <<annotation_id, dests[anchor]>>)]
                               ELSE OnAnchorMiss(st, page_num, url)
                      ELSE IF url \in DOMAIN url_to_page_id
                      THEN [st EXCEPT !.urls_to_rewrite =
                                        Append(@, <<annotation_id, url_to_page_id[url]>>)]
                      ELSE OnUrlMiss(st, page_num, url)
        ELSE IF Has(annotation, "Dest") /\ annotation["Dest"].k = "name"
        THEN LET anchor == annotation["Dest"].v
             IN  IF anchor \in DOMAIN dests
                 THEN [st EXCEPT !.anchors_to_rewrite =
                                    Append(@, <<annotation_id, dests[anchor]>>)]
                 ELSE OnAnchorMiss(st, page_num, <<anchor>>)
        ELSE st

RECURSIVE ScanAnnotations(_, _, _, _, _, _, _, _)
ScanAnnotations(doc, conf_url, url_to_page_id, dests, page_num, list, i, st) ==
    IF i > Len(list) THEN st
    ELSE ScanAnnotations(doc, conf_url, url_to_page_id, dests, page_num, list, i + 1,
            ScanAnnotation(doc, conf_url, url_to_page_id, dests, page_num, st,
                           list[i][1], list[i][2]))

\* the loop over doc.page_iter().enumerate(); i is page_num + 1
RECURSIVE ScanPages(_, _, _, _, _, _, _)
ScanPages(doc, conf_url, url_to_page_id, dests, pages, i, st) ==
    IF i > Len(pages) \/ st.err # "" THEN st
    ELSE LET annots == PageAnnotations(doc, pages[i])
         IN  IF annots.err # "" THEN [st EXCEPT !.err = annots.err]
             ELSE ScanPages(doc, conf_url, url_to_page_id, dests, pages, i + 1,
                    ScanAnnotations(doc, conf_url, url_to_page_id, dests, i - 1,
                                    annots.list, 1, st))

\* the loop over anchors_to_rewrite: [err, objects]
RECURSIVE ApplyAnchors(_, _, _)
ApplyAnchors(list, i, st) ==
    IF i > Len(list) \/ st.err # "" THEN st
    ELSE IF ~IsDictAt(st.objects, list[i][1])
    THEN [st EXCEPT !.err = "annotation is not a dictionary"]
    ELSE ApplyAnchors(list, i + 1,
            [st EXCEPT !.objects[list[i][1]] =
                          Dictionary(DictSet(@.v, "Dest", list[i][2]))])

\* the Dest a plain URL is rewritten to
PageDest(page_id) == Array(<<Reference(page_id), Name("Fit")>>)

\* the loop over urls_to_rewrite: [err, objects]
RECURSIVE ApplyUrls(_, _, _)
ApplyUrls(list, i, st) ==
    IF i > Len(list) \/ st.err # "" THEN st
    ELSE IF ~IsDictAt(st.objects, list[i][1])
    THEN [st EXCEPT !.err = "annotation is not a dictionary"]
    ELSE ApplyUrls(list, i + 1,
            [st EXCEPT !.objects[list[i][1]] =
                          Dictionary(DictSet(DictRemove(@.v, "A"), "Dest",
                                             PageDest(list[i][2])))])

\* the URL -> page id map built from url_to_page_num and get_pages
UrlToPageId(doc, u2p) ==
    [url \in DOMAIN u2p |-> GetPages(doc)[u2p[url] + 1]]

\* the result is [err, doc, problem_urls, problem_anchors, staged]
RewriteVitepressLinks(conf_url, doc, u2p) ==
    LET pages == GetPages(doc)
        none  == [err |-> "", problem_urls |-> <<>>, problem_anchors |-> <<>>,
                  anchors_to_rewrite |-> <<>>, urls_to_rewrite |-> <<>>]
        named == GetNamedDests(doc)
        scan  == ScanPages(doc, conf_url, UrlToPageId(doc, u2p), named.dests,
                           PageIter(doc), 1, none)
        anch  == ApplyAnchors(scan.anchors_to_rewrite, 1,
                              [err |-> "", objects |-> doc.objects])
        urls  == ApplyUrls(scan.urls_to_rewrite, 1, anch)
        fail(e, d) == [err |-> e, doc |-> d, problem_urls |-> <<>>,
                       problem_anchors |-> <<>>,
                       staged |-> [anchors |-> <<>>, urls |-> <<>>]]
    IN  IF \E url \in DOMAIN u2p : u2p[url] + 1 > Len(pages)
        THEN fail("panic: no page for a URL", doc)
        ELSE IF ~named.ok THEN fail("named destinations", doc)
        ELSE IF scan.err # "" THEN fail(scan.err, doc)
        ELSE IF urls.err # ""
        THEN fail(urls.err, [doc EXCEPT !.objects = urls.objects])
        ELSE [err |-> "", doc |-> [doc EXCEPT !.objects = urls.objects],
              problem_urls |-> scan.problem_urls,
              problem_anchors |-> scan.problem_anchors,
              staged |-> [anchors |-> scan.anchors_to_rewrite,
                          urls |-> scan.urls_to_rewrite]]

-----------------------------------------------------------------------------
(* add_page_numbers *)

\* Document::add_object: the object gets the id max_id + 1
AddObject(doc, object) ==
    [doc EXCEPT !.objects = Override(@, (doc.max_id + 1) :> object),
                !.max_id = @ + 1]

\* the name of the n-th font slot, format!("F{font_num}")
Slot(n) == "F" \o ToString(n)

\* the first unused font index of a Font table
RECURSIVE FirstUnused(_, _)
FirstUnused(fonts, font_num) ==
    IF Has(fonts, Slot(font_num)) THEN FirstUnused(fonts, font_num + 1) ELSE font_num

\* the font step for one page dictionary: [err, page, font_num]
AddFont(page, font_id) ==
    IF ~Has(page, "Resources") THEN [err |-> "", page |-> page, font_num |-> 1]
    ELSE IF ~IsDict(page["Resources"])
    THEN [err |-> "panic: Resources is not a dictionary", page |-> page, font_num |-> 1]
    ELSE LET resource_dict == page["Resources"].v
         IN  IF ~Has(resource_dict, "Font")
             THEN [err |-> "", page |-> page, font_num |-> 1]
             ELSE IF ~IsDict(resource_dict["Font"])
             THEN [err |-> "panic: Font is not a dictionary", page |-> page,
                   font_num |-> 1]
             ELSE LET fonts == resource_dict["Font"].v
                      n     == FirstUnused(fonts, 1)
                      set   == DictSet(fonts, Slot(n), Reference(font_id))
                  IN  [err |-> "", font_num |-> n,
                       page |-> DictSet(page, "Resources",
                                  Dictionary(DictSet(resource_dict, "Font",
                                                     Dictionary(set))))]

\* the text block of a page
PageNumberContent(style, font_num, page_num) ==
    <<Operation("BT", <<>>),
      Operation("rg", <<style.color.r, style.color.g, style.color.b>>),
      Operation("Tf", <<Slot(font_num), style.size>>),
      Operation("Tm", <<1, 0, 0, -1, style.x * 300, style.y * 300>>),
      Operation("Tj", <<String(<<"Page ", ToString(page_num)>>)>>),
      Operation("ET", <<>>)>>

\* the content put in place of the page's Contents
SetPageContent(doc, page_id, content) ==
    LET added == [doc EXCEPT !.objects = Override(@, (doc.max_id + 1) :> Stream(content)),
                             !.max_id = @ + 1]
    IN  [added EXCEPT !.objects[page_id] =
            Dictionary(DictSet(doc.objects[page_id].v, "Contents",
                               Array(<<Reference(added.max_id)>>)))]

\* Document::add_to_page_content: the content becomes a new stream, appended to
\* the list of the page's Contents
AddToPageContent(doc, page_id, content) ==
    LET page == doc.objects[page_id].v
        current == IF ~Has(page, "Contents") THEN <<>>
                   ELSE IF IsRef(page["Contents"]) THEN <<page["Contents"]>>
                   ELSE IF IsArr(page["Contents"]) THEN page["Contents"].v
                   ELSE <<>>
        added == AddObject(doc, Stream(content))
    IN  [added EXCEPT !.objects[page_id] =
            Dictionary(DictSet(page, "Contents",
                               Array(Append(current, Reference(added.max_id)))))]

\* the loop over the pages; i is page_num
RECURSIVE NumberPages(_, _, _, _, _)
NumberPages(style, font_id, pages, i, st) ==
    IF i > Len(pages) \/ st.err # "" THEN st
    ELSE LET page_id == pages[i]
             font == IF IsDictAt(st.doc.objects, page_id)
                     THEN AddFont(st.doc.objects[page_id].v, font_id)
                     ELSE [err |-> "", page |-> EmptyDict, font_num |-> 1]
             withFont == IF IsDictAt(st.doc.objects, page_id)
                         THEN [st.doc EXCEPT !.objects[page_id] = Dictionary(font.page)]
                         ELSE st.doc
         IN  IF font.err # "" THEN [st EXCEPT !.err = font.err]
             ELSE IF ~IsDictAt(withFont.objects, page_id)
             THEN [st EXCEPT !.err = "page is not a dictionary"]
             ELSE NumberPages(style, font_id, pages, i + 1,
                    [st EXCEPT !.doc = AddToPageContent(withFont, page_id,
                          PageNumberContent(style, font.font_num, i))])

\* the result is [err, doc]
AddPageNumbers(doc, page_number) ==
    IF page_number = <<>> THEN [err |-> "", doc |-> doc]
    ELSE LET style == page_number[1]
             withFont == AddObject(doc,
                            Dictionary([Type |-> Name("Font"),
                                        Subtype |-> Name("Type1"),
                                        BaseFont |-> String(<<style.font>>)]))
         IN  NumberPages(style, withFont.max_id, GetPages(withFont), 1,
                         [err |-> "", doc |-> withFont])

-----------------------------------------------------------------------------
(* The inputs of a merge *)

Layouts == {"flat", "nestedLow", "nestedHigh"}

Plain == [layout |-> "flat", npages |-> 1, desc |-> FALSE, chain |-> 0, count |-> 0,
          link |-> "none", indirect |-> FALSE, dest |-> FALSE,
          res |-> "absent", broken |-> "", inherit |-> "", names |-> {"a"}]

\* sources whose page trees vary: layout, number of pages, order of the page ids
PageDescs ==
    {q \in {[Plain EXCEPT !.layout = l, !.npages = n, !.desc = d] :
                l \in Layouts, n \in 1..MaxPages, d \in BOOLEAN} :
        q.desc => q.npages > 1}

\* sources whose outlines vary: length of the top-level chain; a chain of one node
\* may declare a Count of one more than the chain (a node with a child)
OutlineDescs ==
    {q \in {[Plain EXCEPT !.chain = c, !.count = n] :
                c \in 0..MaxChain, n \in 0..(MaxChain + 1)} :
        \/ q.count = q.chain
        \/ q.chain = 1 /\ q.count = 2}

\* sources whose links vary: at most one Link annotation, on the last page
LinkDescs ==
    {[Plain EXCEPT !.link = k] : k \in {"none", "next", "anchor"}}

\* the first source of a links merge has any kind of link and any number of
\* pages, may hold its Annots indirectly and may declare the destination "a"
FirstLinkDescs ==
    {q \in {[Plain EXCEPT !.link = k, !.npages = n, !.indirect = i, !.dest = d] :
                k \in LinkKinds, n \in 1..MaxPages, i \in BOOLEAN, d \in BOOLEAN} :
        /\ q.indirect => q.link \in {"next", "slash", "ext", "anchor", "dest"}
        /\ q.dest => q.link \in {"anchor", "dest"}}

SourcesOf(f) ==
    [s \in DOMAIN f |-> [url |-> UrlOf(s), doc |-> MakeDoc(f[s], s), p |-> f[s]]]

\* the descriptions of the sources of a merge: the first from First, the others
\* from Later
Descs(First, Later, max) ==
    UNION {{g \in [1..n -> First \cup Later] :
               g[1] \in First /\ \A s \in 2..n : g[s] \in Later} : n \in 1..max}

\* sources whose root Pages nodes hold entries for their pages to inherit
InheritDescs == {[Plain EXCEPT !.inherit = k] : k \in InheritKinds}

\* sources whose named destinations vary: the first links to #a on its own page
\* or on the next source's, and declares a, b or no table; the others may link
\* to #a on their own page and declare a, a and b, or no table
FirstDestDescs ==
    {[Plain EXCEPT !.link = k, !.dest = (n # {}), !.names = n] :
        k \in {"anchor", "anchorNext"}, n \in {{}, {"a"}, {"b"}}}

LaterDestDescs ==
    {[Plain EXCEPT !.link = k, !.dest = (n # {}), !.names = n] :
        k \in {"none", "anchor"}, n \in {{}, {"a"}, {"a", "b"}}}

Inputs ==
    {SourcesOf(f) : f \in
        Descs(PageDescs, {q \in PageDescs : q.layout # "nestedHigh"}, MaxSources)
        \cup Descs(OutlineDescs, OutlineDescs, MaxOutlineSources)
        \cup Descs(FirstLinkDescs, LinkDescs, MaxLinkSources)
        \cup Descs(InheritDescs, InheritDescs, MaxSources)
        \cup Descs(FirstDestDescs, LaterDestDescs, MaxSources)}

\* sources whose pages' Resources vary
ResourceKinds == {"absent", "noFont", "F1", "F2", "F1F2", "indirect", "fontIndirect"}

ResourceDescs ==
    {[Plain EXCEPT !.res = r, !.npages = n] : r \in ResourceKinds, n \in 1..MaxPages}

LaterResourceDescs == {[Plain EXCEPT !.res = r] : r \in {"absent", "F1"}}

\* sources that lack something a stage needs
BrokenDescs ==
    {[Plain EXCEPT !.broken = b] : b \in {"noPages", "noCatalog", "unloadable"}}
    \cup {[Plain EXCEPT !.broken = b, !.chain = 1, !.count = 1] :
              b \in {"noCount", "noFirst", "noLast"}}

\* the merges whose pages are numbered
NumberingInputs ==
    {SourcesOf(f) : f \in Descs(ResourceDescs, LaterResourceDescs, MaxSources)}

\* the merges in which a stage may fail
BrokenInputs ==
    {SourcesOf(f) : f \in
        Descs(BrokenDescs \cup {[Plain EXCEPT !.chain = 1, !.count = 1]},
              BrokenDescs, MaxSources)}

\* the numbering style of the configuration
Style == [font |-> "Helvetica", size |-> 12, x |-> 1, y |-> 1,
          color |-> [r |-> 0, g |-> 0, b |-> 0]]

-----------------------------------------------------------------------------
(* merge_pdfs, stage by stage *)

Init ==
    /\ \/ sources \in Inputs \cup BrokenInputs /\ conf = [page_number |-> <<>>]
       \/ sources \in NumberingInputs
          /\ conf \in {[page_number |-> <<>>], [page_number |-> <<Style>>]}
    /\ pc = "start"
    /\ renumbered = <<>>
    /\ parts = [objects |-> EmptyDict, pages |-> EmptyDict]
    /\ url_to_page_num = EmptyDict
    /\ pdf = EmptyDoc
    /\ problem_urls = <<>>
    /\ problem_anchors = <<>>
    /\ staged = [anchors |-> <<>>, urls |-> <<>>]
    /\ err = ""
    /\ saved = FALSE
    /\ retcode = ""
    /\ named_dests = [ok |-> FALSE, dests |-> EmptyDict]
    /\ scanned = 0

\* the loop of Document::load over url_to_pdf_path
load_documents ==
    /\ pc = "start"
    /\ IF \E s \in DOMAIN sources : sources[s].p.broken = "unloadable"
       THEN pc' = "load_failed" /\ err' = "load"
       ELSE pc' = "loaded" /\ err' = err
    /\ UNCHANGED <<sources, conf, renumbered, parts, url_to_page_num, pdf,
                   problem_urls, problem_anchors, staged, saved, retcode,
                   named_dests, scanned>>

merge_pdf_objects ==
    /\ pc = "loaded"
    /\ LET r == MergePdfObjects(sources)
       IN  /\ renumbered' = r.renumbered
           /\ parts' = [objects |-> r.objects, pages |-> r.pages]
           /\ url_to_page_num' = r.url_to_page_num
    /\ pc' = "merged"
    /\ UNCHANGED <<sources, conf, pdf, problem_urls, problem_anchors, staged, err,
                   saved, retcode,
                   named_dests, scanned>>

build_pdf_from_objects ==
    /\ pc = "merged"
    /\ LET r == BuildPdfFromObjects(parts)
       IN  /\ pdf' = r.doc
           /\ err' = r.err
           /\ pc' = IF r.err = "" THEN "built" ELSE "build_failed"
    /\ UNCHANGED <<sources, conf, renumbered, parts, url_to_page_num,
                   problem_urls, problem_anchors, staged, saved, retcode,
                   named_dests, scanned>>

rewrite_vitepress_links ==
    /\ pc = "built"
    /\ LET r == RewriteVitepressLinks(ConfUrl, pdf, url_to_page_num)
       IN  /\ pdf' = r.doc
           /\ err' = r.err
           /\ problem_urls' = r.problem_urls
           /\ problem_anchors' = r.problem_anchors
           /\ staged' = r.staged
           /\ pc' = IF r.err = "" THEN "rewritten" ELSE "rewrite_failed"
    /\ named_dests' = GetNamedDests(pdf)
    /\ UNCHANGED <<sources, conf, renumbered, parts, url_to_page_num, saved, retcode,
                   scanned>>

add_page_numbers ==
    /\ pc = "rewritten"
    /\ LET r == AddPageNumbers(pdf, conf.page_number)
       IN  /\ pdf' = r.doc
           /\ err' = r.err
           /\ pc' = IF r.err = "" THEN "numbered" ELSE "numbering_failed"
    /\ UNCHANGED <<sources, conf, renumbered, parts, url_to_page_num,
                   problem_urls, problem_anchors, staged, saved, retcode,
                   named_dests, scanned>>

\* an exit code that looks at the unresolved URLs only
ExitCodeOfUrls(urls, anchors) == IF urls # <<>> THEN "FAILURE" ELSE "SUCCESS"

\* the ExitCode: FAILURE when a problem list is not empty
ExitCode(urls, anchors) ==
    IF urls # <<>> \/ anchors # <<>> THEN "FAILURE" ELSE "SUCCESS"

\* a save that also follows a failed link rewriting
save_after_failure ==
    /\ pc \in {"numbered", "rewrite_failed"}
    /\ saved' = TRUE
    /\ retcode' = ExitCode(problem_urls, problem_anchors)
    /\ pc' = "done"
    /\ UNCHANGED <<sources, conf, renumbered, parts, url_to_page_num, pdf,
                   problem_urls, problem_anchors, staged, err, named_dests,
                   scanned>>

\* pdf.save, which may fail, then the report and the exit code
save_and_report ==
    /\ pc = "numbered"
    /\ \E written \in BOOLEAN :
          IF written
          THEN /\ saved' = TRUE
               /\ retcode' = ExitCode(problem_urls, problem_anchors)
               /\ pc' = "done"
               /\ err' = err
          ELSE /\ pc' = "save_failed"
               /\ err' = "save"
               /\ UNCHANGED <<saved, retcode>>
    /\ UNCHANGED <<sources, conf, renumbered, parts, url_to_page_num, pdf,
                   problem_urls, problem_anchors, staged, named_dests, scanned>>

Next ==
    \/ load_documents
    \/ merge_pdf_objects
    \/ build_pdf_from_objects
    \/ rewrite_vitepress_links
    \/ add_page_numbers
    \/ save_and_report

Spec == Init /\ [][Next]_vars

-----------------------------------------------------------------------------
(* get_named_dests on the shapes a Catalog can have *)

\* the ways a Catalog can hold Dests, Names and Names/Dests
DestsShapes == {"absent", "direct", "ref", "refArray", "int"}
NamesShapes == {"absent", "direct", "ref", "refArray"}

\* the tables the two places can hold
DestTables ==
    {EmptyDict,
     [a |-> Array(<<Reference(3), Name("Fit")>>)],
     [a |-> Array(<<Reference(3), Name("FitB")>>)],
     [b |-> Array(<<Reference(3), Name("Fit")>>)]}

\* an entry of a dictionary in the shape asked for: held directly, through a
\* reference to the dictionary at id, as a reference to the array at 9, as an
\* integer, or not at all
Entry(dict, key, shape, id, table) ==
    CASE shape = "direct"   -> DictSet(dict, key, Dictionary(table))
      [] shape = "ref"      -> DictSet(dict, key, Reference(id))
      [] shape = "refArray" -> DictSet(dict, key, Reference(9))
      [] shape = "int"      -> DictSet(dict, key, Integer(0))
      [] OTHER              -> dict

\* a document of one page with one Link annotation to <base>/page1.html#a whose
\* Catalog holds Dests as c.dests says, with the table c.t1, and Names as
\* c.names says, its Dests as c.inner says, with the table c.t2
CatalogDoc(c) ==
    LET names   == Entry(EmptyDict, "Dests", c.inner, 8, c.t2)
        catalog == Entry(Entry([Type |-> Name("Catalog"), Pages |-> Reference(2)],
                               "Dests", c.dests, 6, c.t1),
                         "Names", c.names, 7, names)
    IN  [objects |->
            <<Dictionary(catalog),
              Dictionary([Type |-> Name("Pages"), Kids |-> Array(<<Reference(3)>>),
                          Count |-> Integer(1)]),
              Dictionary([Type |-> Name("Page"), Parent |-> Reference(2),
                          Annots |-> Array(<<Reference(4)>>)]),
              Dictionary([Type |-> Name("Annot"), Subtype |-> Name("Link"),
                          A |-> Reference(5)]),
              Dictionary([S |-> Name("URI"),
                          URI |-> String(UrlOf(1) \o <<"#", "a">>)]),
              Dictionary(c.t1),
              Dictionary(names),
              Dictionary(c.t2),
              Array(<<Integer(0)>>)>>,
         trailer |-> [Root |-> Reference(1)],
         max_id  |-> 9]

CatalogDocs ==
    {CatalogDoc([dests |-> d, names |-> n, inner |-> i, t1 |-> t1, t2 |-> t2]) :
        d \in DestsShapes, n \in NamesShapes, i \in DestsShapes,
        t1 \in DestTables, t2 \in DestTables}

\* a document as a caller of get_named_dests may hold it
InitDests ==
    /\ pdf \in CatalogDocs
    /\ pc = "catalog"
    /\ sources = <<>>
    /\ conf = [page_number |-> <<>>]
    /\ renumbered = <<>>
    /\ parts = [objects |-> EmptyDict, pages |-> EmptyDict]
    /\ url_to_page_num = EmptyDict
    /\ problem_urls = <<>>
    /\ problem_anchors = <<>>
    /\ staged = [anchors |-> <<>>, urls |-> <<>>]
    /\ err = ""
    /\ saved = FALSE
    /\ retcode = ""
    /\ named_dests = [ok |-> FALSE, dests |-> EmptyDict]
    /\ scanned = 0

\* a call of get_named_dests
get_named_dests ==
    /\ pc = "catalog"
    /\ named_dests' = GetNamedDests(pdf)
    /\ pc' = "built"
    /\ UNCHANGED <<sources, conf, renumbered, parts, url_to_page_num, pdf,
                   problem_urls, problem_anchors, staged, err, saved, retcode,
                   scanned>>

NextDests ==
    \/ get_named_dests
    \/ rewrite_vitepress_links

DestsSpec == InitDests /\ [][NextDests]_vars

-----------------------------------------------------------------------------
(* rewrite_vitepress_links, page by page *)

\* sources whose Link annotation may stop the scan: its Action has no URI, or
\* the Annots array holds an entry that is no reference; a source with a link
\* to #a or to the destination a declares the destination a
ScanDescs ==
    {[Plain EXCEPT !.link = k] : k \in {"none", "next", "slash", "noUri", "badAnnots"}}
    \cup {[Plain EXCEPT !.link = k, !.dest = TRUE] : k \in {"anchor", "dest"}}

ScanInputs == {SourcesOf(f) : f \in Descs(ScanDescs, ScanDescs, MaxSources)}

\* the state at the head of the loop over the pages: the document is built, the
\* URL -> page id map and the named destinations are made, the lists are empty
InitScan ==
    /\ sources \in ScanInputs
    /\ conf = [page_number |-> <<>>]
    /\ LET r == MergePdfObjects(sources)
       IN  /\ renumbered = r.renumbered
           /\ parts = [objects |-> r.objects, pages |-> r.pages]
           /\ url_to_page_num = r.url_to_page_num
           /\ pdf = BuildPdfFromObjects([objects |-> r.objects, pages |-> r.pages]).doc
    /\ named_dests = GetNamedDests(pdf)
    /\ pc = "scanning"
    /\ scanned = 0
    /\ problem_urls = <<>>
    /\ problem_anchors = <<>>
    /\ staged = [anchors |-> <<>>, urls |-> <<>>]
    /\ err = ""
    /\ saved = FALSE
    /\ retcode = ""

\* one pass of the loop over doc.page_iter().enumerate(): the lists after the
\* page at position scanned + 1
ScanPage ==
    LET st     == [err |-> "", problem_urls |-> problem_urls,
                   problem_anchors |-> problem_anchors,
                   anchors_to_rewrite |-> staged.anchors,
                   urls_to_rewrite |-> staged.urls]
        annots == PageAnnotations(pdf, PageIter(pdf)[scanned + 1])
    IN  IF annots.err # "" THEN [st EXCEPT !.err = annots.err]
        ELSE ScanAnnotations(pdf, ConfUrl, UrlToPageId(pdf, url_to_page_num),
                             named_dests.dests, scanned, annots.list, 1, st)

\* the two loops that apply the staged rewrites: [err, objects]
ApplyStaged(objects, anchors, urls) ==
    ApplyUrls(urls, 1, ApplyAnchors(anchors, 1, [err |-> "", objects |-> objects]))

\* a pass of the loop that applies what it stages at once
scan_page_applying ==
    /\ pc = "scanning"
    /\ LET st == ScanPage
       IN  /\ pdf' = [pdf EXCEPT !.objects =
                        ApplyStaged(@, st.anchors_to_rewrite, st.urls_to_rewrite).objects]
           /\ IF st.err # ""
              THEN /\ pc' = "rewrite_failed"
                   /\ err' = st.err
                   /\ problem_urls' = <<>>
                   /\ problem_anchors' = <<>>
                   /\ staged' = [anchors |-> <<>>, urls |-> <<>>]
                   /\ scanned' = scanned
              ELSE /\ pc' = IF scanned + 1 = Len(PageIter(pdf)) THEN "scanned"
                            ELSE "scanning"
                   /\ err' = err
                   /\ problem_urls' = st.problem_urls
                   /\ problem_anchors' = st.problem_anchors
                   /\ staged' = [anchors |-> <<>>, urls |-> <<>>]
                   /\ scanned' = scanned + 1
    /\ UNCHANGED <<sources, conf, renumbered, parts, url_to_page_num, saved, retcode,
                   named_dests>>

\* a pass of the loop: the page's links are staged or reported; an error ends
\* the call and the lists are dropped with it
scan_page ==
    /\ pc = "scanning"
    /\ LET st == ScanPage
       IN  IF st.err # ""
           THEN /\ pc' = "rewrite_failed"
                /\ err' = st.err
                /\ problem_urls' = <<>>
                /\ problem_anchors' = <<>>
                /\ staged' = [anchors |-> <<>>, urls |-> <<>>]
                /\ scanned' = scanned
           ELSE /\ pc' = IF scanned + 1 = Len(PageIter(pdf)) THEN "scanned"
                         ELSE "scanning"
                /\ err' = err
                /\ problem_urls' = st.problem_urls
                /\ problem_anchors' = st.problem_anchors
                /\ staged' = [anchors |-> st.anchors_to_rewrite,
                              urls |-> st.urls_to_rewrite]
                /\ scanned' = scanned + 1
    /\ UNCHANGED <<sources, conf, renumbered, parts, url_to_page_num, pdf, saved,
                   retcode, named_dests>>

\* the loops over anchors_to_rewrite and urls_to_rewrite, then the return
apply_rewrites ==
    /\ pc = "scanned"
    /\ LET r == ApplyStaged(pdf.objects, staged.anchors, staged.urls)
       IN  /\ pdf' = [pdf EXCEPT !.objects = r.objects]
           /\ err' = r.err
           /\ IF r.err # ""
              THEN /\ pc' = "rewrite_failed"
                   /\ problem_urls' = <<>>
                   /\ problem_anchors' = <<>>
                   /\ staged' = [anchors |-> <<>>, urls |-> <<>>]
              ELSE /\ pc' = "rewritten"
                   /\ UNCHANGED <<problem_urls, problem_anchors, staged>>
    /\ UNCHANGED <<sources, conf, renumbered, parts, url_to_page_num, saved, retcode,
                   named_dests, scanned>>

NextScan ==
    \/ scan_page
    \/ apply_rewrites

ScanSpec == InitScan /\ [][NextScan]_vars

-----------------------------------------------------------------------------
(* What the properties speak of *)

\* build_pdf_from_objects has returned a document
Built == pc \in {"built", "rewritten", "rewrite_failed"}

\* merge_pdf_objects has returned
Merged == pc \notin {"start", "loaded", "load_failed"}

\* the root Pages node of the merged document
RootPagesId == Catalog(pdf)["Pages"].v
RootPages   == pdf.objects[RootPagesId].v

\* the pages of the s-th source, in its page-tree order, each named by its Origin
SourceOrigins(s) ==
    LET ids == PageIter(sources[s].doc)
    IN  [i \in DOMAIN ids |-> sources[s].doc.objects[ids[i]].v["Origin"].v]

RECURSIVE OriginsFrom(_)
OriginsFrom(s) ==
    IF s > Len(sources) THEN <<>> ELSE SourceOrigins(s) \o OriginsFrom(s + 1)

\* every imported page, in source order then page-tree order
ExpectedOrigins == OriginsFrom(1)

\* the Origins of the pages the root's Kids lists
KidsOrigins ==
    [i \in DOMAIN RootPages["Kids"].v |->
        pdf.objects[RootPages["Kids"].v[i].v].v["Origin"].v]

ObjectsOfType(doc, t) == {id \in DOMAIN doc.objects : TypeName(doc.objects[id]) = t}

\* C1: after build_pdf_from_objects the root Pages node's Count equals the length
\* of its Kids, both equal the sum of the sources' page counts, and no page is
\* listed twice
C1_CountIsKidsIsTotal ==
    Built =>
        /\ RootPages["Count"] = Integer(Len(RootPages["Kids"].v))
        /\ Len(RootPages["Kids"].v) = Len(ExpectedOrigins)
        /\ Cardinality(Range(RootPages["Kids"].v)) = Len(RootPages["Kids"].v)
        /\ Range(KidsOrigins) = Range(ExpectedOrigins)

C1_Witness ==
    /\ pc = "built"
    /\ Len(sources) >= 2
    /\ \E s \in DOMAIN sources : Len(SourceOrigins(s)) >= 2
    /\ Len(RootPages["Kids"].v) >= 3

\* C2: the root's Kids lists the pages of the first source, then of the second,
\* ..., each source's pages in its own page-tree order, whatever object ids the
\* pages had in their source
C2_KidsInSourceThenPageOrder ==
    Built => KidsOrigins = ExpectedOrigins

\* a source whose later page has the lower object id, after another source
C2_Witness ==
    /\ pc = "built"
    /\ Len(sources) >= 2
    /\ \E s \in DOMAIN sources :
          LET ids == PageIter(sources[s].doc)
          IN  Len(ids) >= 2 /\ ids[2] < ids[1]
    /\ KidsOrigins = ExpectedOrigins

\* C8: the built document holds exactly one Catalog and exactly one Pages object,
\* the trailer's Root and the Catalog's Pages identify them, and every Page's
\* Parent refers to that Pages object
C8_OneCatalogOnePages ==
    Built =>
        /\ ObjectsOfType(pdf, "Catalog") = {pdf.trailer["Root"].v}
        /\ ObjectsOfType(pdf, "Pages") = {RootPagesId}
        /\ \A id \in ObjectsOfType(pdf, "Page") :
              pdf.objects[id].v["Parent"] = Reference(RootPagesId)

\* several sources, one of them with two Pages nodes
C8_Witness ==
    /\ pc = "built"
    /\ Len(sources) >= 2
    /\ \E s \in DOMAIN sources :
          Cardinality(ObjectsOfType(sources[s].doc, "Pages")) >= 2
    /\ Cardinality(ObjectsOfType(pdf, "Page")) >= 2

\* C9: in the built document every reference held by any object, or by the
\* trailer, resolves to an object of the document
C9_NoDanglingReference ==
    Built =>
        /\ \A id \in DOMAIN pdf.objects : RefsOf(pdf.objects[id]) \subseteq DOMAIN pdf.objects
        /\ RefsOf(Dictionary(pdf.trailer)) \subseteq DOMAIN pdf.objects

\* the first id of the s-th source's range: one past the maximum id of the
\* source before it, 1 for the first
RangeStart(s) ==
    IF s = 1 THEN 1
    ELSE 1 + (CHOOSE m \in DOMAIN renumbered[s - 1].objects :
                 \A x \in DOMAIN renumbered[s - 1].objects : x <= m)

\* C10: after merge_pdf_objects the s-th source's objects hold the ids from
\* RangeStart(s) on, no id belongs to two sources, and the unified table holds
\* every object of every source: its size is the sum of the sources' sizes
C10_DisjointIdRanges ==
    Merged =>
        /\ Len(renumbered) = Len(sources)
        /\ \A s \in DOMAIN sources :
              /\ DOMAIN renumbered[s].objects =
                    RangeStart(s) .. (RangeStart(s) + Len(sources[s].doc.objects) - 1)
              /\ \A id \in DOMAIN renumbered[s].objects :
                    /\ id \in DOMAIN parts.objects
                    /\ parts.objects[id] = renumbered[s].objects[id]
        /\ \A s, t \in DOMAIN sources :
              s # t => DOMAIN renumbered[s].objects \cap DOMAIN renumbered[t].objects = {}
        /\ DOMAIN parts.objects = UNION {DOMAIN renumbered[s].objects : s \in DOMAIN sources}

C10_Witness ==
    /\ pc = "merged"
    /\ Len(sources) >= 2
    /\ Cardinality(DOMAIN parts.objects) >= 2 * Len(sources)
    /\ DOMAIN renumbered[2].objects # DOMAIN sources[2].doc.objects

-----------------------------------------------------------------------------
(* Outlines *)

\* the outline root a document's Catalog names
HasOutlines(doc) == HasCatalog(doc) /\ Has(Catalog(doc), "Outlines")
OutlineRoot(doc) == doc.objects[Catalog(doc)["Outlines"].v].v

\* the ids met following Next from id, at most fuel steps
RECURSIVE FollowNext(_, _, _)
FollowNext(objects, id, fuel) ==
    IF fuel = 0 \/ ~IsDictAt(objects, id) THEN <<>>
    ELSE IF Has(objects[id].v, "Next") /\ IsRef(objects[id].v["Next"])
    THEN <<id>> \o FollowNext(objects, objects[id].v["Next"].v, fuel - 1)
    ELSE <<id>>

\* the top-level outline nodes of a document, from the root's First
TopLevel(doc) ==
    FollowNext(doc.objects, OutlineRoot(doc)["First"].v, Cardinality(DOMAIN doc.objects))

Titles(doc, ids) == [i \in DOMAIN ids |-> doc.objects[ids[i]].v["Title"].v]

\* the sources that have an outline, in source order
OutlineSources == SelectSeq([s \in DOMAIN sources |-> s],
                            LAMBDA s : HasOutlines(sources[s].doc))

RECURSIVE SumCounts(_, _)
SumCounts(srcs, i) ==
    IF i > Len(srcs) THEN 0
    ELSE OutlineRoot(sources[srcs[i]].doc)["Count"].v + SumCounts(srcs, i + 1)

RECURSIVE TitlesFrom(_, _)
TitlesFrom(srcs, i) ==
    IF i > Len(srcs) THEN <<>>
    ELSE Titles(sources[srcs[i]].doc, TopLevel(sources[srcs[i]].doc))
         \o TitlesFrom(srcs, i + 1)

\* every source's outline root holds the entries an outline root has
WellFormedOutlines ==
    \A s \in Range(OutlineSources) :
        {"First", "Last", "Count"} \subseteq DOMAIN OutlineRoot(sources[s].doc)

\* C6: the merged outline root's Count is the sum of the Counts the sources'
\* outline roots declare, as declared
C6_CountIsSumOfDeclared ==
    (Built /\ OutlineSources # <<>>) =>
        /\ HasOutlines(pdf)
        /\ OutlineRoot(pdf)["Count"] = Integer(SumCounts(OutlineSources, 1))

\* two or more outlines, one declaring a Count that is not its number of nodes
C6_Witness ==
    /\ pc = "built"
    /\ Len(OutlineSources) >= 2
    /\ \E s \in Range(OutlineSources) :
          OutlineRoot(sources[s].doc)["Count"].v # Len(TopLevel(sources[s].doc))
    /\ OutlineRoot(pdf)["Count"].v >= 3

\* C7: for sources whose outline roots hold First, Last and Count, following
\* Next from the merged root's First visits the top-level nodes of
\* the sources in source order, ends at the merged root's Last, which is the last
\* source's Last, visits no node twice, and Prev is the inverse of Next on it
C7_OneSiblingChain ==
    (Built /\ OutlineSources # <<>> /\ WellFormedOutlines) =>
        LET chain == TopLevel(pdf)
            lastSrc == sources[OutlineSources[Len(OutlineSources)]].doc
        IN  /\ Titles(pdf, chain) = TitlesFrom(OutlineSources, 1)
            /\ chain[Len(chain)] = OutlineRoot(pdf)["Last"].v
            /\ ~Has(pdf.objects[chain[Len(chain)]].v, "Next")
            /\ pdf.objects[chain[Len(chain)]].v["Title"]
                  = lastSrc.objects[OutlineRoot(lastSrc)["Last"].v].v["Title"]
            /\ Cardinality(Range(chain)) = Len(chain)
            /\ ~Has(pdf.objects[chain[1]].v, "Prev")
            /\ \A i \in 2..Len(chain) :
                  pdf.objects[chain[i]].v["Prev"] = Reference(chain[i - 1])

\* three outlines merged, the first with two top-level nodes
C7_Witness ==
    /\ pc = "built"
    /\ Len(OutlineSources) >= 3
    /\ Len(TopLevel(sources[OutlineSources[1]].doc)) >= 2
    /\ Len(TopLevel(pdf)) >= 4

-----------------------------------------------------------------------------
(* Links *)

\* rewrite_vitepress_links has returned, with Ok or with Err
Returned == pc \in {"rewritten", "rewrite_failed"}

\* the document rewrite_vitepress_links was given
Before == BuildPdfFromObjects(parts).doc

\* the sources that hold a Link annotation (on their last page)
LinkSources == {s \in DOMAIN sources : sources[s].p.link # "none"}

\* the URI of the s-th source's Link annotation (empty when it has a Dest)
Uri(s) == LinkUri(sources[s].p, s)

\* the URL a plain URI stands for: index.html is appended after a final "/"
PlainUrl(uri) == IF uri[Len(uri)] = "/" THEN uri \o <<"index.html">> ELSE uri

IsPlainInternal(s) == StartsWith(Uri(s), ConfUrl) /\ "#" \notin Range(Uri(s))

IsAnchorLink(s) ==
    \/ StartsWith(Uri(s), ConfUrl) /\ "#" \in Range(Uri(s))
    \/ sources[s].p.link = "dest"

Imported(url) == \E t \in DOMAIN sources : sources[t].url = url

SourceOfUrl(url) == CHOOSE t \in DOMAIN sources : sources[t].url = url

\* the id, in doc, of the page that was page i of source s
MergedPage(doc, s, i) ==
    CHOOSE id \in DOMAIN doc.objects :
        /\ TypeName(doc.objects[id]) = "Page"
        /\ doc.objects[id].v["Origin"] = String(<<s, i>>)

\* the 1-based position of that page in the merged document
PagePosition(s, i) == IndexOf(PageIter(pdf), MergedPage(pdf, s, i))

\* the id, in doc, of the Link annotation of source s
MergedLink(doc, s) ==
    LET annots == doc.objects[MergedPage(doc, s, sources[s].p.npages)].v["Annots"]
        array  == IF IsRef(annots) THEN doc.objects[annots.v].v ELSE annots.v
    IN  array[1].v

\* the entries of the problem lists that cite a page
EntriesFor(list, page) == {i \in DOMAIN list : list[i].page = page}

\* C3: once rewrite_vitepress_links has returned, every Link annotation whose
\* URI is internal, has no fragment and names an imported source holds
\* Dest = [first page of that source, Fit] and no A
C3_ResolvableUrlBecomesDest ==
    Returned =>
        \A s \in LinkSources :
            (IsPlainInternal(s) /\ Imported(PlainUrl(Uri(s)))) =>
                LET annot == pdf.objects[MergedLink(pdf, s)].v
                    first == MergedPage(pdf, SourceOfUrl(PlainUrl(Uri(s))), 1)
                IN  /\ Has(annot, "Dest")
                    /\ annot["Dest"] = Array(<<Reference(first), Name("Fit")>>)
                    /\ ~Has(annot, "A")

\* C4: once rewrite_vitepress_links has returned, it has returned Ok, and for
\* every Link annotation whose internal, fragment-less URI names no imported
\* source the unresolved-URL list holds exactly one entry, citing the 1-based
\* position of the annotation's page and the URL, and the annotation is as it
\* was; three one-page sources each linking to the next give exactly the entry
\* for page 3 and the fourth URL
C4_UnresolvedUrlIsReported ==
    Returned =>
        /\ \A s \in LinkSources :
              (IsPlainInternal(s) /\ ~Imported(PlainUrl(Uri(s)))) =>
                  LET n == PagePosition(s, sources[s].p.npages)
                  IN  /\ pc = "rewritten"
                      /\ Cardinality(EntriesFor(problem_urls, n)) = 1
                      /\ \A i \in EntriesFor(problem_urls, n) :
                            problem_urls[i] = [page |-> n, text |-> PlainUrl(Uri(s))]
                      /\ pdf.objects[MergedLink(pdf, s)]
                            = Before.objects[MergedLink(Before, s)]
                      /\ Has(pdf.objects[MergedLink(pdf, s)].v, "A")
        /\ (/\ Len(sources) = 3
            /\ \A s \in DOMAIN sources :
                  /\ sources[s].p.link = "next"
                  /\ sources[s].p.npages = 1
                  /\ ~sources[s].p.indirect)
           => problem_urls = <<[page |-> 3, text |-> UrlOf(4)]>>

\* the states a Link annotation can end in
ToPage(s) ==
    LET new == pdf.objects[MergedLink(pdf, s)].v
        old == Before.objects[MergedLink(Before, s)].v
    IN  /\ Has(old, "A") /\ ~Has(new, "A")
        /\ Has(new, "Dest")
        /\ \E q \in Range(PageIter(pdf)) :
              new["Dest"] = Array(<<Reference(q), Name("Fit")>>)

ToNamed(s) ==
    LET new == pdf.objects[MergedLink(pdf, s)].v
        old == Before.objects[MergedLink(Before, s)].v
        dests == GetNamedDests(Before).dests
    IN  /\ new # old
        /\ \E a \in DOMAIN dests : new = DictSet(old, "Dest", dests[a])

Reported(s) ==
    LET n == PagePosition(s, sources[s].p.npages)
    IN  Cardinality(EntriesFor(problem_urls, n))
            + Cardinality(EntriesFor(problem_anchors, n))

Unchanged(s) ==
    pdf.objects[MergedLink(pdf, s)] = Before.objects[MergedLink(Before, s)]

\* C5: after rewrite_vitepress_links returns Ok every Link annotation with an
\* internal URI or a Name-valued Dest is in exactly one of three states:
\* rewritten to a page destination, rewritten to a named destination's value,
\* or unchanged and recorded once in a problem list; a rewritten one is not
\* recorded
C5_ExactlyOneOfThreeStates ==
    pc = "rewritten" =>
        \A s \in LinkSources :
            (IsPlainInternal(s) \/ IsAnchorLink(s)) =>
                /\ \/ ToPage(s) /\ ~ToNamed(s) /\ Reported(s) = 0
                   \/ ToNamed(s) /\ ~ToPage(s) /\ Reported(s) = 0
                   \/ Unchanged(s) /\ ~ToPage(s) /\ ~ToNamed(s) /\ Reported(s) = 1
                /\ Len(problem_urls) + Len(problem_anchors)
                      = Cardinality({t \in LinkSources : Unchanged(t)
                                        /\ (IsPlainInternal(t) \/ IsAnchorLink(t))})

\* one merge in which the three states all occur
C5_Witness ==
    /\ pc = "rewritten"
    /\ \E s, t, u \in LinkSources :
          /\ ToPage(s) /\ ToNamed(t) /\ Unchanged(u) /\ Reported(u) = 1
          /\ IsAnchorLink(t)

-----------------------------------------------------------------------------
(* Stages, the output file and the exit code *)

\* build_pdf_from_objects has returned, with Ok or with Err
BuildReturned == Merged /\ pc # "merged"

\* the stage at which merge_pdfs returned an error
Failed == pc \in {"load_failed", "build_failed", "rewrite_failed", "save_failed"}

\* the objects of a type in the loaded sources
SourceObjects(t) ==
    UNION {{<<s, id>> : id \in ObjectsOfType(sources[s].doc, t)} : s \in DOMAIN sources}

\* an outline root lacks an entry merge_outlines reads: Count or Last of any
\* outline root, First of any but the first
OutlineRootLacksEntry ==
    LET roots == SourceObjects("Outlines")
        first(r) == \A q \in roots : r[1] <= q[1]
    IN  \E r \in roots :
           LET root == sources[r[1]].doc.objects[r[2]].v
           IN  \/ ~Has(root, "Count")
               \/ ~Has(root, "Last")
               \/ ~first(r) /\ ~Has(root, "First")

C12_ExitCodeTellsProblems ==
    /\ pc = "done" =>
          /\ saved /\ err = ""
          /\ retcode \in {"SUCCESS", "FAILURE"}
          /\ retcode = "FAILURE" <=> (problem_urls # <<>> \/ problem_anchors # <<>>)
    /\ retcode # "" => pc = "done"

\* a merge with an unresolved anchor only: written, exit code FAILURE
C12_Witness ==
    /\ pc = "done"
    /\ saved
    /\ retcode = "FAILURE"
    /\ problem_urls = <<>>
    /\ problem_anchors # <<>>

-----------------------------------------------------------------------------
(* Page numbers *)

\* the streams a page's Contents lists, as references
ContentsOf(doc, page_id) ==
    LET page == doc.objects[page_id].v
    IN  IF ~Has(page, "Contents") THEN <<>>
        ELSE IF IsArr(page["Contents"]) THEN page["Contents"].v
        ELSE <<page["Contents"]>>

\* a stream is the text block that shows page number n
IsPageNumberBlock(stream, n) ==
    /\ stream.k = "stream"
    /\ stream.v[1].operator = "BT"
    /\ stream.v[Len(stream.v)].operator = "ET"
    /\ Cardinality({i \in DOMAIN stream.v : stream.v[i].operator = "Tj"}) = 1
    /\ \E i \in DOMAIN stream.v :
          /\ stream.v[i].operator = "Tj"
          /\ stream.v[i].operands = <<String(<<"Page ", ToString(n)>>)>>

FontTable(doc, page_id) ==
    LET resources == GetDeref(doc, doc.objects[page_id].v, "Resources")
        fonts == IF resources.ok /\ IsDict(resources.obj)
                 THEN GetDeref(doc, resources.obj.v, "Font")
                 ELSE [ok |-> FALSE, obj |-> Integer(0)]
    IN  IF fonts.ok /\ IsDict(fonts.obj) THEN fonts.obj.v ELSE EmptyDict

\* the page of a source that a page of the merged document was
SourcePage(page) ==
    LET origin == page["Origin"].v
        doc == sources[origin[1]].doc
    IN  [doc |-> doc,
         id  |-> CHOOSE id \in DOMAIN doc.objects :
                    /\ TypeName(doc.objects[id]) = "Page"
                    /\ doc.objects[id].v["Origin"] = page["Origin"]]

\* the operands of the Tf operator of a page's last content stream
LastTf(doc, page_id) ==
    LET list == ContentsOf(doc, page_id)
        ops  == doc.objects[list[Len(list)].v].v
    IN  ops[CHOOSE i \in DOMAIN ops : ops[i].operator = "Tf"].operands

\* C14: with a style configured add_page_numbers returns, and on every page the
\* Font table holds what it held plus exactly one entry, at the lowest slot
\* F1, F2, .. the page's table did not hold, bound to the one font object the
\* call added; the Tf of the appended block names that slot
C14_EveryFontTableGainsASlot ==
    (pc \in {"numbered", "numbering_failed"} /\ conf.page_number # <<>>) =>
        /\ pc = "numbered"
        /\ \A n \in DOMAIN PageIter(pdf) :
              LET id     == PageIter(pdf)[n]
                  src    == SourcePage(pdf.objects[id].v)
                  before == FontTable(src.doc, src.id)
                  after  == FontTable(pdf, id)
                  slot   == Slot(FirstUnused(before, 1))
              IN  /\ DOMAIN after = DOMAIN before \cup {slot}
                  /\ IsRef(after[slot])
                  /\ IsDictAt(pdf.objects, after[slot].v)
                  /\ pdf.objects[after[slot].v].v["BaseFont"] = String(<<Style.font>>)
                  /\ after[slot] = FontTable(pdf, PageIter(pdf)[1])[slot]
                  /\ \A key \in DOMAIN before :
                        pdf.objects[after[key].v] = src.doc.objects[before[key].v]
                  /\ LastTf(pdf, id)[1] = slot

-----------------------------------------------------------------------------
(* Links out of the site *)

\* the Link annotation of source s carries a URI that does not start with the
\* configured URL
IsExternal(s) == Uri(s) # <<>> /\ ~StartsWith(Uri(s), ConfUrl)

\* the objects of doc that make the Link annotation of source s: the
\* annotation and what it refers to
LinkObjects(doc, s) ==
    LET annot == doc.objects[MergedLink(doc, s)]
    IN  <<annot, [r \in RefsOf(annot) |-> doc.objects[r]]>>

\* C15: once rewrite_vitepress_links has returned, a Link annotation whose URI
\* does not start with the configured URL is what it was before the call, with
\* its A and without a Dest, and no entry of either problem list is for it
C15_ExternalLinkUntouched ==
    Returned =>
        \A s \in LinkSources :
            IsExternal(s) =>
                /\ LinkObjects(pdf, s) = LinkObjects(Before, s)
                /\ Has(pdf.objects[MergedLink(pdf, s)].v, "A")
                /\ ~Has(pdf.objects[MergedLink(pdf, s)].v, "Dest")
                /\ Reported(s) = 0

C15_Witness ==
    /\ pc = "rewritten"
    /\ \E s, t \in LinkSources :
          /\ IsExternal(s)
          /\ ToPage(t)
          /\ problem_urls = <<>> /\ problem_anchors = <<>>

-----------------------------------------------------------------------------
(* Links with a fragment *)

\* the Link annotation of source s carries an internal URI with a fragment
HasFragment(s) == StartsWith(Uri(s), ConfUrl) /\ "#" \in Range(Uri(s))

\* the text after the last "#" of the URI
Fragment(s) == Join(LastPart(Uri(s), "#"))

\* C16: after rewrite_vitepress_links returns Ok, a Link annotation whose
\* internal URI carries a fragment that is a key of the named destinations
\* holds that destination's value as Dest and no A any more; one whose
\* fragment is not a key is what it was and has exactly one entry in the list
\* of unresolved anchors
C16_FragmentResolvedOrReported ==
    pc = "rewritten" =>
        \A s \in LinkSources :
            HasFragment(s) =>
                LET new   == pdf.objects[MergedLink(pdf, s)].v
                    dests == GetNamedDests(Before).dests
                    n     == PagePosition(s, sources[s].p.npages)
                IN  IF Fragment(s) \in DOMAIN dests
                    THEN /\ Has(new, "Dest")
                         /\ new["Dest"] = dests[Fragment(s)]
                         /\ ~Has(new, "A")
                    ELSE /\ Cardinality(EntriesFor(problem_anchors, n)) = 1
                         /\ Unchanged(s)

-----------------------------------------------------------------------------
(* The parent of the outline nodes of the later sources *)

\* the titles of the top-level outline nodes of the sources after the first
\* source that has an outline
LaterTitles == Range(TitlesFrom(OutlineSources, 2))

\* the objects of the merged document that are those nodes
LaterTopLevel ==
    {id \in DOMAIN pdf.objects :
        /\ IsDictAt(pdf.objects, id)
        /\ Has(pdf.objects[id].v, "Title")
        /\ pdf.objects[id].v["Title"].v \in LaterTitles}

\* C17: when two or more sources have an outline, each with its First, Last
\* and Count, merge_outlines succeeds and every top-level node of every source
\* after the first, whatever the length of its chain, holds the merged root
\* as Parent
C17_LaterNodesGetMergedRoot ==
    (BuildReturned /\ WellFormedOutlines /\ Len(OutlineSources) >= 2) =>
        /\ pc # "build_failed"
        /\ HasOutlines(pdf)
        /\ LaterTopLevel # {}
        /\ \A id \in LaterTopLevel :
              pdf.objects[id].v["Parent"] = Catalog(pdf)["Outlines"]

-----------------------------------------------------------------------------
(* Annots held through a reference *)

\* the Link annotation of source s as rewrite_vitepress_links was given it
OldLink(s) == Before.objects[MergedLink(Before, s)].v

\* the link of source s can be resolved: its plain URL names an imported
\* source, or its fragment or its Name-valued Dest is a named destination
Resolvable(s) ==
    LET dests == GetNamedDests(Before).dests
    IN  \/ IsPlainInternal(s) /\ Imported(PlainUrl(Uri(s)))
        \/ HasFragment(s) /\ Fragment(s) \in DOMAIN dests
        \/ /\ ~Has(OldLink(s), "A")
           /\ Has(OldLink(s), "Dest")
           /\ OldLink(s)["Dest"].k = "name"
           /\ OldLink(s)["Dest"].v \in DOMAIN dests

\* the page of source s that holds its Link annotation, in doc
LinkPage(doc, s) == doc.objects[MergedPage(doc, s, sources[s].p.npages)].v

\* C18: whether the page holds its Annots as an array or as a reference to an
\* array, rewrite_vitepress_links succeeds and a resolvable Link annotation
\* itself holds the new Dest; an array held through a reference stays the
\* array of annotation references it was
C18_IndirectAnnotsRewrittenAlike ==
    Returned =>
        \A s \in LinkSources :
            Resolvable(s) =>
                /\ pc = "rewritten"
                /\ ToPage(s) \/ ToNamed(s)
                /\ IsRef(LinkPage(Before, s)["Annots"]) =>
                      pdf.objects[LinkPage(pdf, s)["Annots"].v]
                          = Before.objects[LinkPage(Before, s)["Annots"].v]

-----------------------------------------------------------------------------
(* The named destinations *)

\* the dictionary a dictionary holds under a key, directly or through a
\* reference; <<>> stands for none
DictUnder(doc, node, key) ==
    IF ~Has(node, key) THEN <<>>
    ELSE IF IsDict(node[key]) THEN <<node[key].v>>
    ELSE IF IsRef(node[key]) /\ IsDictAt(doc.objects, node[key].v)
    THEN <<doc.objects[node[key].v].v>>
    ELSE <<>>

\* the Catalog's Dests, else its Names/Dests, else the empty table
ExpectedDests(doc) ==
    LET dests == DictUnder(doc, Catalog(doc), "Dests")
        names == DictUnder(doc, Catalog(doc), "Names")
        inner == IF names = <<>> THEN <<>> ELSE DictUnder(doc, names[1], "Dests")
    IN  IF dests # <<>> THEN dests[1]
        ELSE IF inner # <<>> THEN inner[1]
        ELSE EmptyDict

\* C19: get_named_dests returns Ok with the Catalog's Dests dictionary when
\* there is one, else with the Names/Dests dictionary when there is one, else
\* with the empty table; with the empty table rewrite_vitepress_links returns
\* Ok and reports the link to #a as an unresolved anchor
C19_DestsElseNamesElseEmpty ==
    /\ pc # "catalog" =>
          named_dests = [ok |-> TRUE, dests |-> ExpectedDests(pdf)]
    /\ (pc \in {"rewritten", "rewrite_failed"} /\ ExpectedDests(pdf) = EmptyDict) =>
          /\ pc = "rewritten"
          /\ problem_anchors = <<Problem(0, UrlOf(1) \o <<"#", "a">>)>>

-----------------------------------------------------------------------------
(* The entries of the merged Pages node *)

\* the Pages-typed objects build_pdf_from_objects meets, by id
PagesNodes ==
    {id \in DOMAIN parts.objects : TypeName(parts.objects[id]) = "Pages"}

\* the keys they set, Count and Kids apart
PagesKeys ==
    UNION {DOMAIN parts.objects[id].v : id \in PagesNodes} \ {"Count", "Kids"}

\* the first of them, in the order of the loop, to set a key
FirstWith(key) ==
    CHOOSE id \in PagesNodes :
        /\ Has(parts.objects[id].v, key)
        /\ \A other \in PagesNodes : Has(parts.objects[other].v, key) => id <= other

\* pages_object, the first Pages object's id and the accumulated dictionary,
\* as the loop over the objects leaves it
PagesObject ==
    ScanLoop(parts.objects, Sorted(DOMAIN parts.objects), 1,
             [err |-> "", catalog |-> <<>>, destination_ids |-> <<>>,
              outlines |-> <<>>, pages_object |-> <<>>,
              objects |-> EmptyDict]).pages_object

\* C20: the merged Pages node has the id of the first Pages object met, holds
\* every key a source's Pages object sets and, for each of them, Count and
\* Kids apart, the value of the first source in import order that sets it
C20_FirstSourceWins ==
    Built =>
        /\ PagesObject[1] \in PagesNodes
        /\ \A id \in PagesNodes : PagesObject[1] <= id
        /\ DOMAIN RootPages \ {"Count", "Kids"} = PagesKeys
        /\ DOMAIN PagesObject[2].v \ {"Count", "Kids"} = PagesKeys
        /\ \A key \in PagesKeys :
              LET first == parts.objects[FirstWith(key)].v[key]
              IN  /\ PagesObject[2].v[key] = first
                  /\ RefsOf(first) = {} => RootPages[key] = first

-----------------------------------------------------------------------------
(* The merged named destinations *)

\* the Dests object the Catalog of source s refers to; empty when it has none
SourceDests(s) ==
    LET doc == sources[s].doc
    IN  IF /\ HasCatalog(doc)
           /\ Has(Catalog(doc), "Dests")
           /\ IsRef(Catalog(doc)["Dests"])
           /\ IsDictAt(doc.objects, Catalog(doc)["Dests"].v)
        THEN doc.objects[Catalog(doc)["Dests"].v].v
        ELSE EmptyDict

\* every destination name a source declares
DeclaredNames == UNION {DOMAIN SourceDests(s) : s \in DOMAIN sources}

\* the last source, in import order, that declares a name
LatestWith(name) ==
    CHOOSE s \in DOMAIN sources :
        /\ name \in DOMAIN SourceDests(s)
        /\ \A t \in DOMAIN sources : name \in DOMAIN SourceDests(t) => t <= s

\* a value of source s as the merged document holds it: a reference to a page
\* of the source refers to that page of the merged document
InMerged(s, value) ==
    LET doc == sources[s].doc
    IN  MapRefs(value,
                [r \in RefsOf(value) |->
                    CHOOSE id \in DOMAIN pdf.objects :
                        /\ TypeName(pdf.objects[id]) = "Page"
                        /\ pdf.objects[id].v["Origin"] = doc.objects[r].v["Origin"]])

\* the destination the merged document should hold for a name
LatestDest(name) == InMerged(LatestWith(name), SourceDests(LatestWith(name))[name])

\* an object that is a table of destinations
IsDestsObject(object) ==
    IsDict(object) /\ DOMAIN object.v # {} /\ DOMAIN object.v \subseteq DeclaredNames

\* C21: the Dests dictionary of the merged Catalog holds exactly the names the
\* sources' Dests objects declare, each with the destination of the last
\* source in import order that declares it, and no Dests object of a source is
\* left in the document; after the links are rewritten, a link whose fragment
\* is such a name holds that destination, whatever page its URI names
C21_LaterDestinationWins ==
    /\ Built =>
          /\ Has(Catalog(pdf), "Dests")
          /\ IsDict(Catalog(pdf)["Dests"])
          /\ DOMAIN Catalog(pdf)["Dests"].v = DeclaredNames
          /\ \A name \in DeclaredNames :
                Catalog(pdf)["Dests"].v[name] = LatestDest(name)
          /\ \A id \in DOMAIN pdf.objects : ~IsDestsObject(pdf.objects[id])
    /\ pc = "rewritten" =>
          \A s \in LinkSources :
              (HasFragment(s) /\ Fragment(s) \in DeclaredNames) =>
                  /\ Has(pdf.objects[MergedLink(pdf, s)].v, "Dest")
                  /\ pdf.objects[MergedLink(pdf, s)].v["Dest"]
                        = LatestDest(Fragment(s))

\* two sources declare a, the first links to #a on the second source's page and
\* the second declares b as well
C21_Witness ==
    /\ pc = "rewritten"
    /\ Len(sources) >= 2
    /\ "a" \in DOMAIN SourceDests(1) /\ {"a", "b"} \subseteq DOMAIN SourceDests(2)
    /\ sources[1].p.link = "anchorNext"
    /\ LatestWith("a") = 2
    /\ pdf.objects[MergedLink(pdf, 1)].v["Dest"]
          = Array(<<Reference(MergedPage(pdf, 2, 1)), Name("Fit")>>)

-----------------------------------------------------------------------------
(* Rewrites wait for the end of the scan *)

\* the errors that end the scan
ScanErrors == {"URI", "Annots entry is not a reference", "annotation is not a dictionary"}

\* C22: a step of rewrite_vitepress_links changes the document only once every
\* page is scanned, and a scan that ends with an error leaves the document as
\* it was given, every annotation unchanged, and returns no problem list
C22_RewritesFollowTheScan ==
    [][/\ pdf' # pdf => (pc = "scanned" /\ scanned = Len(PageIter(pdf)))
       /\ (pc = "scanning" /\ pc' = "rewrite_failed") =>
             /\ err' \in ScanErrors
             /\ pdf' = Before
             /\ problem_urls' = <<>>
             /\ problem_anchors' = <<>>]_vars

\* the scan failed on a later page after a page whose link can be rewritten
C22_Witness ==
    /\ pc = "rewrite_failed"
    /\ err \in ScanErrors
    /\ scanned >= 1
    /\ sources[1].p.link \in {"slash", "anchor", "dest"}
    /\ pdf = Before

=============================================================================
